---- MODULE Spec2Model ----
(***************************************************************************)
(* Model of docling-service/app.py: the /process endpoint of a Flask       *)
(* service that stages an uploaded file in a temporary file, hands the     *)
(* path to a docling DocumentConverter and returns the Markdown export.    *)
(*                                                                         *)
(* Each request is one invocation of process_document, run by its own      *)
(* server thread; the threads share the module-level converter and the     *)
(* file system.  An action is one step of the handler between two points   *)
(* where another thread may touch the file system.                         *)
(***************************************************************************)
EXTENDS Integers, Sequences, FiniteSets, TLC

\* Bounds of the model.
MaxReqs == 2
MaxNames == 2

Reqs == 1..MaxReqs

\* ------------------------------------------------------------------ values

\* Python's None for temp_file_path (falsy, like the empty string), and the
\* state of a local name that has not been assigned yet.
None == <<>>
Unbound == <<"<unbound>">>

\* The module-level converter: an instance, or None when construction raised.
NoConverter == "None"
ConverterInstance == "DocumentConverter"

\* File names are sequences of characters; the empty sequence is ''.
Filenames == { <<>>, <<"a", ".", "p">> }
\* The byte strings an upload can hold, in a fixed enumeration.
ByteStrings == << "x", "y" >>
Bytes == { ByteStrings[i] : i \in 1..Len(ByteStrings) }

\* What a file holds: nothing (created, not written), or the bytes written.
NoFile == "<absent>"
Empty == ""

\* A request as Flask hands it to the handler.
NoFilePart == [hasFile |-> FALSE, filename |-> <<>>, bytes |-> Empty]
Uploads ==
    { [hasFile |-> TRUE, filename |-> f, bytes |-> b] :
        f \in Filenames \ {<<>>}, b \in Bytes }
    \cup { [hasFile |-> TRUE, filename |-> <<>>, bytes |-> Empty] }
Requests == {NoFilePart} \cup Uploads

\* ------------------------------------------------------------ os.path.splitext

\* str.rfind: the last index of c in p, 0 when there is none (Python: -1).
rfind(p, c) ==
    LET hits == { i \in 1..Len(p) : p[i] = c }
    IN  IF hits = {} THEN 0 ELSE CHOOSE i \in hits : \A j \in hits : j <= i

\* os.path.splitext(p)[1]: the extension is the part from the last dot, when
\* that dot follows the last separator and is not one of the leading dots of
\* the last path component.
splitext(p) ==
    LET sepIndex == rfind(p, "/")
        dotIndex == rfind(p, ".")
    IN  IF /\ dotIndex > sepIndex
           /\ \E i \in (sepIndex + 1)..(dotIndex - 1) : p[i] # "."
        THEN SubSeq(p, dotIndex, Len(p))
        ELSE <<>>

\* ------------------------------------------------------------------- paths

\* The random names mkstemp can draw, in a fixed enumeration.
Name(i) == "tmp" \o ToString(i)
Names == { Name(i) : i \in 1..MaxNames }
\* The suffixes line 55 can ask for: a request with an empty filename is
\* rejected before staging.
Suffixes == { splitext(f) : f \in Filenames \ {<<>>} }
\* A temporary path: the random name followed by the suffix.
Paths == { <<n>> \o s : n \in Names, s \in Suffixes }
PathSuffix(p) == Tail(p)

\* ---------------------------------------------------------------- responses

NoResponse == [kind |-> "none", status |-> 0, mimetype |-> "", json |-> {}, data |-> ""]

\* (jsonify(payload), status): the payload is a set of <<key, value>> pairs.
jsonify(payload, status) ==
    [kind |-> "response", status |-> status, mimetype |-> "application/json",
     json |-> payload, data |-> ""]

\* Response(data, mimetype=...): the default status is 200.
Response(data, mimetype) ==
    [kind |-> "response", status |-> 200, mimetype |-> mimetype,
     json |-> {}, data |-> data]

\* An exception that leaves process_document: the handler returns no response.
Propagated(exc) ==
    [kind |-> "exception", status |-> 0, mimetype |-> "", json |-> {}, data |-> exc]

\* ------------------------------------------------------------------- state

VARIABLES
    converter,       \* the module-level converter, set once at import
    deterministic,   \* whether the installed collaborator is deterministic
    oracle,          \* what a deterministic collaborator answered so far
    disk,            \* the temporary directory: path -> content, or NoFile
    creator,         \* which request's NamedTemporaryFile made the file at a path
    pc,              \* each request's position in process_document
    req,             \* each request as received
    file_bytes,      \* local file_bytes
    temp_file,       \* the name of the file that line 55 opened (temp_file.name)
    temp_file_path,  \* local temp_file_path
    result,          \* local result: what the document's export will do
    pending,         \* the value of the return statement that ran, if any
    response,        \* what the handler finally returned to Flask
    fault,           \* the step of the try block that raised, if any
    rmFailed,        \* whether os.remove raised in the cleanup
    converted,       \* the <<path, content>> the converter was called on
    exported,        \* the text export_to_markdown returned
    steps            \* the steps each request has taken, in order

vars == <<converter, deterministic, oracle, disk, creator, pc, req, file_bytes,
          temp_file, temp_file_path, result, pending, response, fault,
          rmFailed, converted, exported, steps>>

\* What the collaborator can do with a document: raise in convert, raise in
\* export_to_markdown, or export one of these texts.
MarkdownTexts == { "# A", "# B" }
ConvertRaises == "convert raises"
ExportRaises == "export raises"
Outcomes == {ConvertRaises, ExportRaises} \cup MarkdownTexts
NoResult == "<no result>"
NotConverted == <<None, NoFile>>

\* ------------------------------------------------------- pieces of the handler

\* Mutant: the file part is looked at before the converter.
PreconditionsFileFirst(c, rq) ==
    IF ~rq.hasFile
    THEN jsonify({<<"error", "No file part in the request">>}, 400)
    ELSE IF c = NoConverter
    THEN jsonify({<<"error", "Docling converter not initialized during startup">>}, 503)
    ELSE IF rq.filename = <<>>
    THEN jsonify({<<"error", "No selected file">>}, 400)
    ELSE NoResponse

\* Mutant: the empty filename is not checked.
PreconditionsNoFilenameCheck(c, rq) ==
    IF c = NoConverter
    THEN jsonify({<<"error", "Docling converter not initialized during startup">>}, 503)
    ELSE IF ~rq.hasFile
    THEN jsonify({<<"error", "No file part in the request">>}, 400)
    ELSE NoResponse

\* Mutant: the converter is not checked before the upload is staged.
PreconditionsConverterLate(c, rq) ==
    IF ~rq.hasFile
    THEN jsonify({<<"error", "No file part in the request">>}, 400)
    ELSE IF rq.filename = <<>>
    THEN jsonify({<<"error", "No selected file">>}, 400)
    ELSE NoResponse

\* Lines 30-43: the three checks before the try block, in the order of the
\* code; NoResponse when the request passes them.
Preconditions(c, rq) ==
    IF c = NoConverter
    THEN jsonify({<<"error", "Docling converter not initialized during startup">>}, 503)
    ELSE IF ~rq.hasFile
    THEN jsonify({<<"error", "No file part in the request">>}, 400)
    ELSE IF rq.filename = <<>>
    THEN jsonify({<<"error", "No selected file">>}, 400)
    ELSE NoResponse

\* Mutant: a handler that finds the converter missing constructs it.
ConverterAfterCheckRetry(c) ==
    IF c = NoConverter THEN ConverterInstance ELSE c

\* Lines 30-33: the module-level converter after a request's check; the
\* handler reads the name and never assigns it.
ConverterAfterCheck(c) == c

\* Mutant: the converter is called inside the with block, before the file is
\* closed.
AfterStepConvertInsideWith(step) ==
    CASE step = "read" -> "create"
      [] step = "create" -> "write"
      [] step = "write" -> "convert"
      [] step = "convert" -> "close"
      [] step = "close" -> "export"
      [] step = "export" -> "finally"

\* Lines 48-73: the step that follows a step of the try block that returned
\* normally: the statements run in the order of the code.
AfterStep(step) ==
    CASE step = "read" -> "create"
      [] step = "create" -> "write"
      [] step = "write" -> "close"
      [] step = "close" -> "convert"
      [] step = "convert" -> "export"
      [] step = "export" -> "finally"

\* Mutant: the name is assigned to another variable and temp_file_path keeps
\* its None.
RecordedPathNone(name) == None

\* Line 57: the value temp_file_path gets, temp_file.name.
RecordedPath(name) == name

\* Line 80: the return statement of the except clause.
ErrorResponse(e) ==
    jsonify({<<"error", "Failed to process document with docling">>,
             <<"details", e>>}, 500)

\* Mutant: a failed write or close is attempted again with a new file.
AfterExceptRetry(step) ==
    IF step \in {"write", "close"} THEN "create" ELSE "finally"

\* Mutant: a failed conversion is attempted again.
AfterExceptRetryConvert(step) ==
    IF step = "convert" THEN "convert" ELSE "finally"

\* Lines 75-82: an exception in the try block runs the except clause and then
\* the finally clause; nothing is attempted again.
AfterExcept(step) == "finally"

\* Mutant: the name is not checked against the files that exist.
NamedTemporaryFileNoExcl(d, suffix) ==
    { p \in Paths : PathSuffix(p) = suffix }

\* The names that some request's NamedTemporaryFile has drawn so far.
DrawnNames ==
    { n \in Names : \E r \in Reqs : temp_file[r] # None /\ Head(temp_file[r]) = n }

\* Line 55: the paths NamedTemporaryFile(delete=False, suffix=...) can create
\* in directory d: mkstemp opens the file with O_EXCL, so only a name that no
\* file has yet.  The name is random: it may be one drawn before (whose file
\* is gone) or a new one; the names never drawn are interchangeable, so the
\* first of them in the enumeration stands for all of them.
NamedTemporaryFile(d, suffix) ==
    { p \in Paths :
        /\ PathSuffix(p) = suffix
        /\ d[p] = NoFile
        /\ \/ Head(p) \in DrawnNames
           \/ \E i \in 1..MaxNames :
                /\ Head(p) = Name(i)
                /\ \A j \in 1..(i - 1) : Name(j) \in DrawnNames }

\* Line 56: the content of the staged file after temp_file.write(b).
Written(b) == b

\* Mutant: the path is kept in one place shared by all requests, so a request
\* converts the path the first request recorded.
ConvertSourceShared(r) ==
    LET first == CHOOSE q \in Reqs : \A o \in Reqs : q <= o
    IN  IF temp_file_path[first] \in Paths
        THEN temp_file_path[first]
        ELSE temp_file_path[r]

\* Line 65: the path passed to converter.convert.
ConvertSource(r) == temp_file_path[r]

\* Mutant: the mimetype argument is left out, so Flask's default applies.
MarkdownResponseDefaultMimetype(markdown_output) ==
    Response(markdown_output, "text/html")

\* Line 73: the success response.
MarkdownResponse(markdown_output) == Response(markdown_output, "text/markdown")

\* Mutant: the cleanup tests single_page_temp_file_path (line 45), which is
\* always None.
CleanupWantedStale(path, d) == None # None /\ d[path] # NoFile

\* Line 84: whether the cleanup removes the file.
CleanupWanted(path, d) == path # None /\ d[path] # NoFile

\* Mutant: the OSError of os.remove is not caught and leaves the handler.
AfterRemoveUncaught(pend, failed) ==
    IF failed THEN Propagated("OSError") ELSE pend

\* Lines 85-89: what the handler returns after os.remove was attempted; an
\* OSError is caught and logged.
AfterRemove(pend, failed) == pend

\* --------------------------------------------------------------------- Init

\* Lines 12-20: the import either constructed the converter or stored None;
\* no request has arrived and the temporary directory is empty.
Startup ==
    /\ converter \in {ConverterInstance, NoConverter}
    /\ oracle = {}
    /\ disk = [p \in Paths |-> NoFile]
    /\ creator = [p \in Paths |-> 0]
    /\ pc = [r \in Reqs |-> "idle"]
    /\ req = [r \in Reqs |-> NoFilePart]
    /\ file_bytes = [r \in Reqs |-> Empty]
    /\ temp_file = [r \in Reqs |-> None]
    /\ temp_file_path = [r \in Reqs |-> Unbound]
    /\ result = [r \in Reqs |-> NoResult]
    /\ pending = [r \in Reqs |-> NoResponse]
    /\ response = [r \in Reqs |-> NoResponse]
    /\ fault = [r \in Reqs |-> ""]
    /\ rmFailed = [r \in Reqs |-> FALSE]
    /\ converted = [r \in Reqs |-> NotConverted]
    /\ exported = [r \in Reqs |-> NoResult]
    /\ steps = [r \in Reqs |-> <<>>]

\* The collaborator is a black box: in general it may answer the same document
\* differently on two calls.
Init == Startup /\ deterministic = FALSE

\* The service with a deterministic collaborator installed.
InitDet == Startup /\ deterministic = TRUE

\* Request r takes a step of the handler.
Took(r, step) == steps' = [steps EXCEPT ![r] = Append(@, step)]

\* An exception e raised by `step` of the try block of request r: the except
\* clause determines the 500 response and control goes to the finally clause.
Raise(r, step, e) ==
    /\ fault' = [fault EXCEPT ![r] = step]
    /\ pending' = [pending EXCEPT ![r] = ErrorResponse(e)]
    /\ pc' = [pc EXCEPT ![r] = AfterExcept(step)]

\* ------------------------------------------------------------------ actions

\* The byte strings that the uploads received so far hold.
SeenBytes ==
    { req[q].bytes : q \in { q \in Reqs : pc[q] # "idle" /\ req[q].bytes # Empty } }

\* The requests that can arrive next.  The bytes of an upload are arbitrary:
\* they may equal those of an earlier upload or be new, and the byte strings
\* not seen before are interchangeable, so the first of them in the
\* enumeration stands for all of them.
Arrivals ==
    { rq \in Requests :
        \/ rq.bytes \in SeenBytes \cup {Empty}
        \/ \E i \in 1..Len(ByteStrings) :
              /\ rq.bytes = ByteStrings[i]
              /\ \A j \in 1..(i - 1) : ByteStrings[j] \in SeenBytes }

\* Lines 23-46: a request arrives and the handler runs its checks.  Requests
\* are numbered in the order of their arrival.
Precondition(r) ==
    /\ pc[r] = "idle"
    /\ \A q \in Reqs : q < r => pc[q] # "idle"
    /\ \E rq \in Arrivals :
        /\ req' = [req EXCEPT ![r] = rq]
        /\ IF Preconditions(converter, rq) # NoResponse
           THEN /\ response' = [response EXCEPT ![r] = Preconditions(converter, rq)]
                /\ pc' = [pc EXCEPT ![r] = "done"]
           ELSE /\ response' = response
                /\ pc' = [pc EXCEPT ![r] = "read"]
    /\ converter' = ConverterAfterCheck(converter)
    /\ Took(r, "receive")
    /\ UNCHANGED <<deterministic, oracle, disk, creator, file_bytes,
                   temp_file, temp_file_path, result, pending, fault, rmFailed,
                   converted, exported>>

\* Lines 48-51: file.read() returns the upload's bytes, or raises.
ReadUpload(r) ==
    /\ pc[r] = "read"
    /\ \/ /\ file_bytes' = [file_bytes EXCEPT ![r] = req[r].bytes]
          /\ pc' = [pc EXCEPT ![r] = AfterStep("read")]
          /\ UNCHANGED <<fault, pending>>
       \/ /\ Raise(r, "read", "read failed")
          /\ UNCHANGED file_bytes
    /\ Took(r, "read")
    /\ UNCHANGED <<converter, deterministic, oracle, disk, creator, req,
                   temp_file, temp_file_path, result, response, rmFailed,
                   converted, exported>>

\* Lines 54-55: temp_file_path = None, then NamedTemporaryFile creates and
\* opens an empty file under a name no file has, or raises.
CreateTemp(r) ==
    /\ pc[r] = "create"
    /\ temp_file_path' = [temp_file_path EXCEPT ![r] = None]
    /\ \/ \E p \in NamedTemporaryFile(disk, splitext(req[r].filename)) :
            /\ disk' = [disk EXCEPT ![p] = Empty]
            /\ creator' = [creator EXCEPT ![p] = r]
            /\ temp_file' = [temp_file EXCEPT ![r] = p]
            /\ pc' = [pc EXCEPT ![r] = AfterStep("create")]
            /\ UNCHANGED <<fault, pending>>
       \/ /\ Raise(r, "create", "mkstemp failed")
          /\ UNCHANGED <<disk, creator, temp_file>>
    /\ Took(r, "create")
    /\ UNCHANGED <<converter, deterministic, oracle, req, file_bytes, result,
                   response, rmFailed, converted, exported>>

\* Lines 56-57: temp_file.write(file_bytes), then temp_file_path = temp_file.name;
\* when write raises, the with statement closes the file and the name is never
\* recorded.
WriteTemp(r) ==
    /\ pc[r] = "write"
    /\ \/ /\ disk' = [disk EXCEPT ![temp_file[r]] = Written(file_bytes[r])]
          /\ temp_file_path' = [temp_file_path EXCEPT ![r] = RecordedPath(temp_file[r])]
          /\ pc' = [pc EXCEPT ![r] = AfterStep("write")]
          /\ UNCHANGED <<fault, pending>>
       \/ /\ Raise(r, "write", "write failed")
          /\ UNCHANGED <<disk, temp_file_path>>
    /\ Took(r, "write")
    /\ UNCHANGED <<converter, deterministic, oracle, creator, req, file_bytes,
                   temp_file, result, response, rmFailed, converted, exported>>

\* Lines 58-62: the with statement closes the file (or raises doing so), then
\* the handler checks that a path was recorded.
CloseTemp(r) ==
    /\ pc[r] = "close"
    /\ \/ /\ IF temp_file_path[r] = None
             THEN /\ pending' = [pending EXCEPT ![r] =
                        jsonify({<<"error", "Internal error: Temp file path not set.">>}, 500)]
                  /\ pc' = [pc EXCEPT ![r] = "finally"]
             ELSE /\ pending' = pending
                  /\ pc' = [pc EXCEPT ![r] = AfterStep("close")]
          /\ UNCHANGED fault
       \/ Raise(r, "close", "close failed")
    /\ Took(r, "close")
    /\ UNCHANGED <<converter, deterministic, oracle, disk, creator, req,
                   file_bytes, temp_file, temp_file_path, result, response,
                   rmFailed, converted, exported>>

\* Lines 64-66: converter.convert(source=temp_file_path) reads the file at
\* the path.  It raises when there is no such file; otherwise the collaborator
\* decides, and a deterministic one decides the same way for the same content
\* and extension.  A request at "convert" is inside the call, for as long as
\* the call takes; this action is the call returning or raising.
Convert(r) ==
    /\ pc[r] = "convert"
    /\ LET src == ConvertSource(r)
           key == <<disk[src], PathSuffix(src)>>
           known == { t \in oracle : t[1] = key }
       IN  /\ converted' = [converted EXCEPT ![r] = <<src, disk[src]>>]
           /\ \E out \in Outcomes :
                /\ disk[src] = NoFile => out = ConvertRaises
                /\ deterministic /\ disk[src] # NoFile =>
                      \A t \in known : t[2] = out
                /\ oracle' = IF deterministic /\ disk[src] # NoFile
                             THEN oracle \cup {<<key, out>>}
                             ELSE oracle
                /\ IF out = ConvertRaises
                   THEN /\ Raise(r, "convert", "convert failed")
                        /\ UNCHANGED result
                   ELSE /\ result' = [result EXCEPT ![r] = out]
                        /\ pc' = [pc EXCEPT ![r] = AfterStep("convert")]
                        /\ UNCHANGED <<fault, pending>>
    /\ Took(r, "convert")
    /\ UNCHANGED <<converter, deterministic, disk, creator, req, file_bytes,
                   temp_file, temp_file_path, response, rmFailed, exported>>

\* Lines 68-73: export_to_markdown returns the text, which becomes the body of
\* the response, or raises.
Export(r) ==
    /\ pc[r] = "export"
    /\ IF result[r] = ExportRaises
       THEN /\ Raise(r, "export", "export failed")
            /\ UNCHANGED exported
       ELSE /\ exported' = [exported EXCEPT ![r] = result[r]]
            /\ pending' = [pending EXCEPT ![r] = MarkdownResponse(result[r])]
            /\ pc' = [pc EXCEPT ![r] = AfterStep("export")]
            /\ UNCHANGED fault
    /\ Took(r, "export")
    /\ UNCHANGED <<converter, deterministic, oracle, disk, creator, req,
                   file_bytes, temp_file, temp_file_path, result, response,
                   rmFailed, converted>>

\* Line 84: the finally clause reads temp_file_path.  The name is unbound when
\* the try block raised before line 54: reading it raises UnboundLocalError,
\* which replaces the pending return value and leaves the handler.
Finally(r) ==
    /\ pc[r] = "finally"
    /\ IF temp_file_path[r] = Unbound
       THEN /\ response' = [response EXCEPT ![r] = Propagated("UnboundLocalError")]
            /\ pc' = [pc EXCEPT ![r] = "done"]
       ELSE IF CleanupWanted(temp_file_path[r], disk)
       THEN /\ pc' = [pc EXCEPT ![r] = "remove"]
            /\ response' = response
       ELSE /\ response' = [response EXCEPT ![r] = pending[r]]
            /\ pc' = [pc EXCEPT ![r] = "done"]
    /\ Took(r, "finally")
    /\ UNCHANGED <<converter, deterministic, oracle, disk, creator, req,
                   file_bytes, temp_file, temp_file_path, result, pending,
                   fault, rmFailed, converted, exported>>

\* Lines 85-89: os.remove(temp_file_path) deletes the file, or raises OSError
\* (always when the file is no longer there); then the handler returns.
Remove(r) ==
    /\ pc[r] = "remove"
    /\ \/ /\ disk[temp_file_path[r]] # NoFile
          /\ disk' = [disk EXCEPT ![temp_file_path[r]] = NoFile]
          /\ creator' = [creator EXCEPT ![temp_file_path[r]] = 0]
          /\ response' = [response EXCEPT ![r] = AfterRemove(pending[r], FALSE)]
          /\ UNCHANGED rmFailed
       \/ /\ rmFailed' = [rmFailed EXCEPT ![r] = TRUE]
          /\ response' = [response EXCEPT ![r] = AfterRemove(pending[r], TRUE)]
          /\ UNCHANGED <<disk, creator>>
    /\ pc' = [pc EXCEPT ![r] = "done"]
    /\ Took(r, "remove")
    /\ UNCHANGED <<converter, deterministic, oracle, req, file_bytes, temp_file,
                   temp_file_path, result, pending, fault, converted, exported>>

Next ==
    \E r \in Reqs :
        \/ Precondition(r)
        \/ ReadUpload(r)
        \/ CreateTemp(r)
        \/ WriteTemp(r)
        \/ CloseTemp(r)
        \/ Convert(r)
        \/ Export(r)
        \/ Finally(r)
        \/ Remove(r)

Spec == Init /\ [][Next]_vars

SpecDet == InitDet /\ [][Next]_vars

\* Once the collaborator's calls are over, what remains of the handler is the
\* thread's own code and two system calls, which the server thread runs to the
\* end.  Nothing is assumed of the collaborator: a call may never return.
SpecFair ==
    /\ Init /\ [][Next]_vars
    /\ \A r \in Reqs : WF_vars(Finally(r)) /\ WF_vars(Remove(r))

\* ------------------------------------------------------------------ claims

Done(r) == pc[r] = "done"
InFlight(r) == pc[r] \notin {"idle", "done"}

\* The files on disk that request r's NamedTemporaryFile call created.
FilesOf(r) == { p \in Paths : disk[p] # NoFile /\ creator[p] = r }

\* A request holds a staged path from the creation of its file until its
\* handler returns.
Holds(r) == InFlight(r) /\ temp_file[r] # None

JsonKeys(resp) == { kv[1] : kv \in resp.json }

IsMarkdownBody(resp) ==
    /\ resp.kind = "response"
    /\ resp.status = 200
    /\ resp.mimetype = "text/markdown"
    /\ resp.json = {}

IsJsonError(resp) ==
    /\ resp.kind = "response"
    /\ resp.status \in {400, 500, 503}
    /\ resp.mimetype = "application/json"
    /\ "error" \in JsonKeys(resp)

\* The 500 response of a failed conversion: keys error and details, the
\* details being the message of the exception convert raised.
IsConversionFailure(resp) ==
    /\ resp.kind = "response"
    /\ resp.status = 500
    /\ JsonKeys(resp) = {"error", "details"}
    /\ <<"error", "Failed to process document with docling">> \in resp.json
    /\ <<"details", "convert failed">> \in resp.json

\* C1: once a request has completed, whatever its outcome, no temporary file
\* that the request created is left on disk.
C1_NoStagedFileRemains ==
    \A r \in Reqs : Done(r) => FilesOf(r) = {}

\* C2: no exception leaves process_document: every completed request ended
\* with a complete response, the Markdown body or a JSON error object with
\* status 400, 500 or 503.
C2_NoExceptionPropagates ==
    \A r \in Reqs :
        Done(r) => IsMarkdownBody(response[r]) \/ IsJsonError(response[r])

\* C3 (as stated): when converter.convert raised for a staged request, the
\* response is the 500 error with keys error and details, and the staged file
\* has been removed when the handler has returned.
C3_ConvertFailureFileRemoved ==
    \A r \in Reqs :
        Done(r) /\ fault[r] = "convert" =>
            /\ IsConversionFailure(response[r])
            /\ FilesOf(r) = {}

\* C3 (amended): when converter.convert raised for a staged request, the
\* response is the 500 error with keys error and details, and the staged file
\* has been removed when the handler has returned, unless os.remove itself
\* raised OSError in the cleanup.
C3_ConvertFailureCleanedUp ==
    \A r \in Reqs :
        Done(r) /\ fault[r] = "convert" =>
            /\ IsConversionFailure(response[r])
            /\ ~rmFailed[r] => FilesOf(r) = {}

C3_Witness ==
    \E r \in Reqs :
        /\ Done(r) /\ fault[r] = "convert" /\ ~rmFailed[r]
        /\ temp_file_path[r] \in Paths
        /\ disk[temp_file_path[r]] = NoFile
        /\ response[r].status = 500

\* C4: when the converter failed to construct at startup, no request gets
\* past the first check and every completed request got 503, whatever its body.
C4_UnavailableAlways503 ==
    converter = NoConverter =>
        \A r \in Reqs :
            /\ ~InFlight(r)
            /\ Done(r) =>
                /\ response[r].kind = "response"
                /\ response[r].status = 503
                /\ JsonKeys(response[r]) = {"error"}

C4_Witness ==
    /\ converter = NoConverter
    /\ \E r1, r2 \in Reqs :
        /\ Done(r1) /\ ~req[r1].hasFile
        /\ Done(r2) /\ req[r2].hasFile /\ req[r2].filename # <<>>

\* C5 (as stated): every request without a file part gets 400 "No file part in
\* the request", and every request whose file part has an empty filename gets
\* 400 "No selected file".
C5_BadRequestAlways400 ==
    \A r \in Reqs :
        Done(r) =>
            /\ ~req[r].hasFile =>
                  response[r] = jsonify({<<"error", "No file part in the request">>}, 400)
            /\ req[r].hasFile /\ req[r].filename = <<>> =>
                  response[r] = jsonify({<<"error", "No selected file">>}, 400)

\* C5 (amended): while the converter is available, every request without a file
\* part gets 400 "No file part in the request", and every request whose file
\* part has an empty filename gets 400 "No selected file".
C5_BadRequest400WhenAvailable ==
    converter # NoConverter =>
        \A r \in Reqs :
            /\ InFlight(r) => req[r].hasFile /\ req[r].filename # <<>>
            /\ Done(r) =>
                /\ ~req[r].hasFile =>
                      /\ response[r].kind = "response"
                      /\ response[r].status = 400
                      /\ response[r].json = {<<"error", "No file part in the request">>}
                /\ req[r].hasFile /\ req[r].filename = <<>> =>
                      /\ response[r].kind = "response"
                      /\ response[r].status = 400
                      /\ response[r].json = {<<"error", "No selected file">>}

C5_Witness ==
    /\ converter # NoConverter
    /\ \E r1, r2 \in Reqs :
        /\ Done(r1) /\ ~req[r1].hasFile /\ response[r1].status = 400
        /\ Done(r2) /\ req[r2].hasFile /\ req[r2].filename = <<>>
        /\ response[r2].status = 400

\* C6: when conversion and Markdown export returned for a request, its
\* response has status 200, content type text/markdown and, as body, the text
\* the export returned; the converter was called on the request's own staged
\* file, holding the request's bytes.
C6_SuccessIsExportVerbatim ==
    \A r \in Reqs :
        Done(r) /\ exported[r] # NoResult =>
            /\ response[r].kind = "response"
            /\ response[r].status = 200
            /\ response[r].mimetype = "text/markdown"
            /\ response[r].data = exported[r]
            /\ response[r].json = {}
            /\ converted[r] = <<temp_file[r], req[r].bytes>>

C6_Witness ==
    \E r1, r2 \in Reqs :
        /\ Done(r1) /\ exported[r1] = "# A" /\ response[r1].data = "# A"
        /\ Done(r2) /\ exported[r2] = "# B" /\ response[r2].data = "# B"

\* C7: when os.remove fails in the cleanup, the handler returns exactly the
\* response it had determined before the cleanup, which is the Markdown
\* success response or the 500 error response.
C7_RemoveFailureAbsorbed ==
    \A r \in Reqs :
        Done(r) /\ rmFailed[r] =>
            /\ response[r] = pending[r]
            /\ \/ IsMarkdownBody(response[r]) /\ response[r].data = exported[r]
               \/ IsJsonError(response[r]) /\ response[r].status = 500

C7_Witness ==
    \E r1, r2 \in Reqs :
        /\ Done(r1) /\ rmFailed[r1] /\ response[r1].status = 200
        /\ disk[temp_file_path[r1]] # NoFile
        /\ Done(r2) /\ rmFailed[r2] /\ response[r2].status = 500

\* C8: a request's staged file is private to it.  No two requests in flight
\* hold the same staged path; the file a request holds exists and is the one
\* the request created, until the request's own cleanup; the converter is
\* called on the request's own path, and the path the cleanup tests and
\* removes is the request's own.
C8_StagedFilePrivate ==
    /\ \A r1, r2 \in Reqs :
          r1 # r2 /\ Holds(r1) /\ Holds(r2) => temp_file[r1] # temp_file[r2]
    /\ \A r \in Reqs :
          /\ Holds(r) => disk[temp_file[r]] # NoFile /\ creator[temp_file[r]] = r
          /\ pc[r] \in {"convert", "export"} =>
                disk[temp_file[r]] = req[r].bytes
          /\ converted[r] # NotConverted =>
                converted[r] = <<temp_file[r], req[r].bytes>>
          /\ temp_file_path[r] \in {Unbound, None, temp_file[r]}

C8_Witness ==
    \E r1, r2 \in Reqs :
        /\ r1 # r2
        /\ pc[r1] = "convert" /\ pc[r2] = "remove"
        /\ req[r1] = req[r2]

C10_AtMostOneStagedFile ==
    \A r \in Reqs : Cardinality(FilesOf(r)) <= 1

C10_Witness ==
    \E r1, r2 \in Reqs :
        /\ r1 # r2
        /\ InFlight(r1) /\ Cardinality(FilesOf(r1)) = 1
        /\ InFlight(r2) /\ Cardinality(FilesOf(r2)) = 1

\* The steps of a request in the order of the code.
StepOrder ==
    << "receive", "read", "create", "write", "close", "convert", "export",
       "finally", "remove" >>
RankOf ==
    [ step \in { StepOrder[i] : i \in 1..Len(StepOrder) } |->
        CHOOSE i \in 1..Len(StepOrder) : StepOrder[i] = step ]
Rank(step) == RankOf[step]
Has(r, step) == \E i \in 1..Len(steps[r]) : steps[r][i] = step
Times(r, step) == Cardinality({ i \in 1..Len(steps[r]) : steps[r][i] = step })

\* C11: the converter slot keeps the value the startup gave it: no step of any
\* request changes it, a missing converter is never constructed later, and a
\* request that arrives while it is missing is answered with 503.
C11_ConverterSetOnce ==
    [][ /\ converter' = converter
        /\ \A r \in Reqs :
              converter = NoConverter /\ pc[r] = "idle" /\ pc'[r] # "idle" =>
                  /\ pc'[r] = "done"
                  /\ response'[r].kind = "response"
                  /\ response'[r].status = 503 ]_vars

C11_Witness ==
    /\ converter = NoConverter
    /\ \A r \in Reqs : Done(r) /\ response[r].status = 503

\* C12: the steps of a request occur in the order receive, read, create, write,
\* close, convert, export, finally, remove.  The converter is called only after
\* the write and the close succeeded, and during the call the staged file
\* exists and holds all the upload's bytes; the export is called only after
\* convert returned; the file is removed only after conversion and export have
\* returned or a step has raised.
C12_StepsInOrder ==
    \A r \in Reqs :
        /\ \A i \in 1..(Len(steps[r]) - 1) :
              Rank(steps[r][i]) < Rank(steps[r][i + 1])
        /\ pc[r] = "convert" \/ Has(r, "convert") =>
              /\ Has(r, "write") /\ Has(r, "close")
              /\ fault[r] \notin {"read", "create", "write", "close"}
        /\ pc[r] = "convert" =>
              /\ temp_file_path[r] \in Paths
              /\ disk[temp_file_path[r]] = req[r].bytes
        /\ Has(r, "convert") => converted[r][2] = req[r].bytes
        /\ Has(r, "export") => Has(r, "convert") /\ result[r] # NoResult
        /\ pc[r] = "remove" \/ Has(r, "remove") =>
              /\ pc[r] \notin {"convert", "export"}
              /\ fault[r] # "" \/ exported[r] # NoResult

C12_Witness ==
    \E r1, r2 \in Reqs :
        /\ steps[r1] = StepOrder
        /\ Done(r1) /\ response[r1].status = 200
        /\ pc[r2] = "convert"

\* A request that one of the three checks rejects: the converter is missing,
\* or the request has no file part, or the filename is empty.
Rejected(r) ==
    /\ pc[r] # "idle"
    /\ converter = NoConverter \/ ~req[r].hasFile \/ req[r].filename = <<>>

\* C13: a request rejected by a precondition check is answered in its first
\* step with 503 or 400, and that step changes nothing else: the request never
\* reads the upload, never creates a temporary file and never calls the
\* converter, and the temporary directory, the converter and the other
\* requests are as before.
C13_RejectedTouchesNothing ==
    [][ \A r \in Reqs :
          Rejected(r)' =>
              /\ pc'[r] = "done"
              /\ steps'[r] = <<"receive">>
              /\ IsJsonError(response'[r]) /\ response'[r].status \in {400, 503}
              /\ file_bytes'[r] = Empty
              /\ temp_file'[r] = None /\ temp_file_path'[r] = Unbound
              /\ converted'[r] = NotConverted
              /\ \A p \in Paths : creator'[p] # r
              /\ pc[r] = "idle" =>
                    /\ UNCHANGED <<converter, oracle, disk, creator>>
                    /\ \A q \in Reqs \ {r} :
                          /\ pc'[q] = pc[q] /\ steps'[q] = steps[q]
                          /\ response'[q] = response[q]
                          /\ temp_file_path'[q] = temp_file_path[q] ]_vars

C13_Witness ==
    \E r1, r2 \in Reqs :
        /\ pc[r1] = "convert" /\ disk[temp_file_path[r1]] = req[r1].bytes
        /\ Rejected(r2) /\ Done(r2) /\ response[r2].status = 400
        /\ steps[r2] = <<"receive">>

\* The collaborator's calls of request r are over: convert raised, or the
\* export was called and returned or raised.
CollaboratorReturned(r) == fault[r] = "convert" \/ Has(r, "export")

\* C14: nothing is retried.  No step of a request happens twice (the converter
\* is called at most once, the staged file is created and written at most
\* once); after a failure no further step of the try block runs, only the
\* cleanup; a response, once returned, stays; and every request whose
\* collaborator calls have returned or raised eventually returns a response.
C14_NothingRetried ==
    /\ [](\A r \in Reqs :
            /\ \A st \in {"read", "create", "write", "close", "convert", "export"} :
                  Times(r, st) <= 1
            /\ fault[r] # "" =>
                  /\ pc[r] \in {"finally", "remove", "done"}
                  /\ \A i \in 1..Len(steps[r]) :
                        Rank(steps[r][i]) <= Rank(fault[r])
                        \/ steps[r][i] \in {"finally", "remove"}
            /\ response[r] # NoResponse <=> Done(r))
    /\ \A r \in Reqs :
          CollaboratorReturned(r) ~> (Done(r) /\ response[r].kind = "response")

C14_Witness ==
    \E r1, r2 \in Reqs :
        /\ Done(r1) /\ fault[r1] = "convert" /\ response[r1].status = 500
        /\ Times(r1, "convert") = 1
        /\ Done(r2) /\ Has(r2, "export") /\ response[r2].status = 200

\* C15: the check of line 61 never fails: when control reaches it the recorded
\* path is a path, and no request is ever answered with "Internal error: Temp
\* file path not set.".
C15_PathAlwaysSet ==
    \A r \in Reqs :
        /\ pc[r] = "close" => temp_file_path[r] \in Paths
        /\ <<"error", "Internal error: Temp file path not set.">>
              \notin (pending[r].json \cup response[r].json)

C15_Witness ==
    \E r \in Reqs :
        /\ Has(r, "close") /\ fault[r] = ""
        /\ pc[r] = "convert"
        /\ temp_file_path[r] = temp_file[r]

====
